---- MODULE Spec2Model ----
(***************************************************************************)
(* TraumaPredict AI front-end (src/App.tsx, src/services/geminiService.ts, *)
(* src/components/InjuryChart.tsx) as a state machine.                     *)
(*                                                                         *)
(* Strings are sequences of one-character strings.  A response text is a   *)
(* sequence of JSON tokens.  Probabilities are integers in thousandths.    *)
(* Voice sessions are numbered 1..MaxSessions in the order startListening  *)
(* creates them; 0 stands for a null ref.                                  *)
(***************************************************************************)
EXTENDS Integers, Sequences, FiniteSets, TLC

\* ---------------------------------------------------------------- bounds
MaxLen == 3          \* longest narrative text
MaxSessions == 2     \* startListening attempts
MaxInFlight == 2     \* analysis requests outstanding at one time
MaxText == 5         \* longest response text, in tokens
MaxInjuries == 3     \* longest list of predicted injuries

\* ---------------------------------------------------------------- strings
Chars == {"a", " "}

SeqsUpTo(S, n) == UNION {[1..k -> S] : k \in 0..n}

\* A transcript fragment is a piece of recognised speech: never empty.
Fragments == {<<"a">>, <<" ">>, <<"a", " ", "a">>}

RECURSIVE TrimStart(_)
TrimStart(s) ==
  IF s = <<>> THEN <<>>
  ELSE IF Head(s) = " " THEN TrimStart(Tail(s)) ELSE s

RECURSIVE TrimEnd(_)
TrimEnd(s) ==
  IF s = <<>> THEN <<>>
  ELSE IF s[Len(s)] = " " THEN TrimEnd(SubSeq(s, 1, Len(s) - 1)) ELSE s

\* the narrative tested as it stands
NoTrim(s) == s

\* String.prototype.trim
Trim(s) == TrimEnd(TrimStart(s))

\* ---------------------------------------------------------------- JSON
Tokens == {"{", "}", "k", ":", "v"}

JsonNull == [t |-> "null", n |-> 0]
JsonScalar == [t |-> "scalar", n |-> 0]
JsonObject(n) == [t |-> "object", n |-> n]

ParseFail == [ok |-> FALSE, value |-> JsonNull]
ParseOk(v) == [ok |-> TRUE, value |-> v]

\* members of an object from position i on: ("k" ":" "v")* "}" and the end
\* of the text (one token stands for a member and its separator alike)
RECURSIVE ParseMembers(_, _, _)
ParseMembers(t, i, n) ==
  IF i > Len(t) THEN ParseFail
  ELSE IF t[i] = "}" THEN (IF i = Len(t) THEN ParseOk(JsonObject(n)) ELSE ParseFail)
  ELSE IF i + 2 <= Len(t) /\ t[i] = "k" /\ t[i + 1] = ":" /\ t[i + 2] = "v"
       THEN ParseMembers(t, i + 3, n + 1)
       ELSE ParseFail

\* JSON.parse: a scalar, or an object of scalar members; anything else throws
JSONParse(t) ==
  IF t = <<>> THEN ParseFail
  ELSE IF t = <<"v">> THEN ParseOk(JsonScalar)
  ELSE IF t[1] = "{" THEN ParseMembers(t, 2, 0)
  ELSE ParseFail

\* ---------------------------------------------------------------- analysis client
\* What ai.models.generateContent gives: a response with text, a response
\* whose text is undefined, or a rejection.
TextResponse(t) == [kind |-> "text", text |-> t]
NoTextResponse == [kind |-> "notext", text |-> <<>>]
FailedRequest == [kind |-> "error", text |-> <<>>]

Return(v) == [kind |-> "return", value |-> v, error |-> ""]
Throw(e) == [kind |-> "throw", value |-> JsonNull, error |-> e]

EmptyObjectText == <<"{", "}">>

\* response.text || "{}"
TextOrDefault(resp) ==
  IF resp.kind = "notext" \/ resp.text = <<>> THEN EmptyObjectText ELSE resp.text

analyzeTraumaData(resp) ==
  IF resp.kind = "error" THEN Throw("request failed")
  ELSE LET p == JSONParse(TextOrDefault(resp))
       IN IF p.ok THEN Return(p.value)
          ELSE Throw("Invalid analysis data received from AI")

\* ---------------------------------------------------------------- state
VARIABLES
  loading,          \* useState(false)
  analysis,         \* useState<TraumaAnalysis | null>(null)
  narrative,        \* formData.accidentDescription
  isListening,      \* useState(false)
  audioContextRef,  \* useRef: 0 or the session whose AudioContext it holds
  streamRef,        \* useRef: 0 or the session whose MediaStream it holds
  sessionRef,       \* useRef: 0 or the session whose connect promise it holds
  phase,            \* per startListening call: where it and its live session are
  ctx,              \* per call: its AudioContext ("none", "running", "closed")
  stream,           \* per call: its MediaStream ("none", "live", "stopped")
  inflight,         \* analyzeTraumaData calls awaited by a submit handler
  alert,            \* text of the last window.alert
  heard,            \* history: fragments appended since the narrative was last empty
  dictated,         \* history: the narrative holds nothing but those fragments
  injuries,         \* InjuryChart props
  data,             \* InjuryChart: the rows it renders
  response,         \* analysis client alone: what generateContent gave
  outcome           \* analysis client alone: what analyzeTraumaData did with it

formVars == <<loading, analysis, narrative, inflight, alert, heard, dictated>>
voiceVars == <<isListening, audioContextRef, streamRef, sessionRef, phase, ctx, stream>>
chartVars == <<injuries, data>>
clientVars == <<response, outcome>>
vars == <<formVars, voiceVars, chartVars, clientVars>>

Sessions == 1..MaxSessions

NotCalled == [kind |-> "pending", value |-> JsonNull, error |-> ""]

InitForm ==
  /\ loading = FALSE
  /\ analysis = JsonNull
  /\ narrative = <<>>
  /\ inflight = 0
  /\ alert = "none"
  /\ heard = <<>>
  /\ dictated = TRUE

InitVoice ==
  /\ isListening = FALSE
  /\ audioContextRef = 0
  /\ streamRef = 0
  /\ sessionRef = 0
  /\ phase = [s \in Sessions |-> "unused"]
  /\ ctx = [s \in Sessions |-> "none"]
  /\ stream = [s \in Sessions |-> "none"]

InitChart ==
  /\ injuries = <<>>
  /\ data = <<>>

InitClient ==
  /\ response = NoTextResponse
  /\ outcome = NotCalled

Init == InitForm /\ InitVoice /\ InitChart /\ InitClient

\* ---------------------------------------------------------------- form
\* what one edit of the textarea makes of its value: a character typed at the
\* end, the last character deleted, or everything deleted
Edits(text) ==
  {text \o <<c>> : c \in {x \in Chars : Len(text) < MaxLen}}
    \cup {SubSeq(text, 1, Len(text) - 1) : x \in {y \in {1} : text # <<>>}}
    \cup {<<>>}

\* handleInputChange: the textarea's new value replaces the narrative
handleInputChange(v) ==
  /\ narrative' = v
  /\ heard' = <<>>
  /\ dictated' = (v = <<>>)
  /\ UNCHANGED <<loading, analysis, inflight, alert>>
  /\ UNCHANGED <<voiceVars, chartVars, clientVars>>

\* ---------------------------------------------------------------- voice bridge
stopListening ==
  /\ sessionRef' = 0
  /\ stream' = IF streamRef # 0 THEN [stream EXCEPT ![streamRef] = "stopped"] ELSE stream
  /\ streamRef' = 0
  /\ ctx' = IF audioContextRef # 0 THEN [ctx EXCEPT ![audioContextRef] = "closed"] ELSE ctx
  /\ audioContextRef' = 0
  /\ isListening' = FALSE

\* the session a new startListening call gets
NextSession == CHOOSE s \in Sessions : phase[s] = "unused" /\ \A r \in Sessions : r < s => phase[r] # "unused"

\* startListening up to its await: the constructors either throw (caught:
\* alert) or the AudioContext is stored and getUserMedia is pending
startListening(ok) ==
  /\ \E s \in Sessions : phase[s] = "unused"
  /\ LET s == NextSession IN
       IF ok
       THEN /\ ctx' = [ctx EXCEPT ![s] = "running"]
            /\ audioContextRef' = s
            /\ phase' = [phase EXCEPT ![s] = "asking"]
            /\ UNCHANGED alert
       ELSE /\ alert' = "mic"
            /\ UNCHANGED <<ctx, audioContextRef, phase>>
  /\ UNCHANGED <<isListening, streamRef, sessionRef, stream>>

\* getUserMedia resolved: the stream is stored, ai.live.connect is called
\* and its promise stored
getUserMediaResolved(s) ==
  /\ phase[s] = "asking"
  /\ stream' = [stream EXCEPT ![s] = "live"]
  /\ streamRef' = s
  /\ sessionRef' = s
  /\ phase' = [phase EXCEPT ![s] = "connecting"]
  /\ UNCHANGED <<isListening, audioContextRef, ctx>>
  /\ UNCHANGED <<formVars, chartVars, clientVars>>

\* getUserMedia rejected: the catch block
getUserMediaRejected(s) ==
  /\ phase[s] = "asking"
  /\ phase' = [phase EXCEPT ![s] = "denied"]
  /\ alert' = "mic"
  /\ UNCHANGED <<isListening, audioContextRef, streamRef, sessionRef, ctx, stream>>
  /\ UNCHANGED <<loading, analysis, narrative, inflight, heard, dictated>>
  /\ UNCHANGED <<chartVars, clientVars>>

\* callbacks.onopen of session s; createMediaStreamSource on a closed
\* context throws in some browsers and not in others
onopen(s, thrown) ==
  /\ phase[s] = "connecting"
  /\ thrown => ctx[s] = "closed"
  /\ phase' = [phase EXCEPT ![s] = "open"]
  /\ isListening' = IF thrown THEN isListening ELSE TRUE
  /\ UNCHANGED <<audioContextRef, streamRef, sessionRef, ctx, stream>>
  /\ UNCHANGED <<formVars, chartVars, clientVars>>

\* a separator before the first fragment too
AlwaysSpace(prev) == <<" ">>

\* prev.accidentDescription ? ' ' : ''
Separator(prev) == IF prev # <<>> THEN <<" ">> ELSE <<>>

AppendFragment(prev, text) == prev \o Separator(prev) \o text

\* callbacks.onmessage of session s with an inputTranscription
onmessage(s, text) ==
  /\ phase[s] = "open"
  /\ Len(AppendFragment(narrative, text)) <= MaxLen
  /\ narrative' = AppendFragment(narrative, text)
  /\ heard' = IF dictated THEN Append(heard, text) ELSE heard
  /\ UNCHANGED <<loading, analysis, inflight, alert, dictated>>
  /\ UNCHANGED <<voiceVars, chartVars, clientVars>>

\* callbacks.onerror of session s
onerror(s) ==
  /\ phase[s] \in {"connecting", "open"}
  /\ phase' = [phase EXCEPT ![s] = "errored"]
  /\ stopListening
  /\ UNCHANGED <<formVars, chartVars, clientVars>>

\* callbacks.onclose of session s
onclose(s) ==
  /\ phase[s] \in {"connecting", "open", "errored"}
  /\ phase' = [phase EXCEPT ![s] = "closed"]
  /\ isListening' = FALSE
  /\ UNCHANGED <<audioContextRef, streamRef, sessionRef, ctx, stream>>
  /\ UNCHANGED <<formVars, chartVars, clientVars>>

\* the mic button
toggleListening(ok) ==
  /\ IF isListening
     THEN ok /\ stopListening /\ UNCHANGED <<phase, alert>>
     ELSE startListening(ok)
  /\ UNCHANGED <<loading, analysis, narrative, inflight, heard, dictated>>
  /\ UNCHANGED <<chartVars, clientVars>>

\* stopListening when one release step throws: nothing catches it, so the
\* statements after the throwing call do not run
stopListeningThrows(step) ==
  /\ sessionRef' = 0
  /\ IF step = "tracks"
     THEN /\ streamRef # 0
          /\ UNCHANGED <<stream, streamRef, ctx, audioContextRef>>
     ELSE /\ audioContextRef # 0
          /\ stream' = IF streamRef # 0 THEN [stream EXCEPT ![streamRef] = "stopped"] ELSE stream
          /\ streamRef' = 0
          /\ UNCHANGED <<ctx, audioContextRef>>
  /\ UNCHANGED isListening

ThrowingSteps == {"tracks", "context"}

\* the mic button while listening, with a release step that throws
toggleListeningThrows(step) ==
  /\ isListening
  /\ stopListeningThrows(step)
  /\ UNCHANGED <<phase, formVars, chartVars, clientVars>>

\* ---------------------------------------------------------------- submit
\* a submit button without the disabled attribute
AlwaysEnabled == TRUE

\* <button type="submit" disabled={loading}>: the form's only submitter.
\* (The textarea's required attribute is left out: a submit with an empty
\* narrative reaches handleSubmit's own check.)
SubmitEnabled == ~loading

ResponseTexts ==
  { <<>>, <<"{", "}">>, <<"{", "k", ":", "v", "}">>, <<"{", "k", ":">>, <<"}">> }

Responses == {NoTextResponse, FailedRequest} \cup {TextResponse(t) : t \in ResponseTexts}

\* handleSubmit up to its await
handleSubmit ==
  /\ SubmitEnabled
  /\ IF isListening THEN stopListening
     ELSE UNCHANGED <<isListening, audioContextRef, streamRef, sessionRef, ctx, stream>>
  /\ IF Trim(narrative) = <<>>
     THEN /\ alert' = "validation"
          /\ UNCHANGED <<loading, inflight>>
     ELSE /\ inflight < MaxInFlight
          /\ loading' = TRUE
          /\ inflight' = inflight + 1
          /\ UNCHANGED alert
  /\ UNCHANGED <<analysis, narrative, heard, dictated, phase>>
  /\ UNCHANGED <<chartVars, clientVars>>

\* handleSubmit from its await on: the call returned or threw
analysisSettles(resp) ==
  /\ inflight > 0
  /\ LET r == analyzeTraumaData(resp) IN
       /\ analysis' = IF r.kind = "return" THEN r.value ELSE analysis
       /\ alert' = IF r.kind = "return" THEN alert ELSE "failure"
  /\ loading' = FALSE
  /\ inflight' = inflight - 1
  /\ UNCHANGED <<narrative, heard, dictated>>
  /\ UNCHANGED <<voiceVars, chartVars, clientVars>>

\* ---------------------------------------------------------------- injury chart
\* probabilities in thousandths
Probabilities == {300, 302, 304, 500, 900}

\* injuries are told apart by their place in the props: bodyRegion i
InjuryLists ==
  { [i \in 1..Len(ps) |-> [bodyRegion |-> i, probability |-> ps[i]]] :
      ps \in SeqsUpTo(Probabilities, MaxInjuries) }

\* Math.round(probability * 100)
RoundPercent(p) == (p + 5) \div 10

ToRow(i) == [name |-> i.bodyRegion, prob |-> RoundPercent(i.probability)]

\* the comparator the other way round
Ascending(a, b) == a.prob - b.prob

\* (a, b) => b.prob - a.prob
Compare(a, b) == b.prob - a.prob

\* row x put into a sorted list behind every row that does not sort after it
RECURSIVE Insert(_, _)
Insert(x, rows) ==
  IF rows = <<>> THEN <<x>>
  ELSE IF Compare(Head(rows), x) <= 0 THEN <<Head(rows)>> \o Insert(x, Tail(rows))
  ELSE <<x>> \o rows

\* Array.prototype.sort, which is stable
RECURSIVE Sort(_)
Sort(rows) ==
  IF rows = <<>> THEN <<>>
  ELSE Insert(rows[Len(rows)], Sort(SubSeq(rows, 1, Len(rows) - 1)))

ChartData(list) == Sort([i \in 1..Len(list) |-> ToRow(list[i])])

InjuryChart ==
  /\ data' = ChartData(injuries)
  /\ UNCHANGED <<injuries, formVars, voiceVars, clientVars>>

\* ---------------------------------------------------------------- client alone
AllResponses ==
  {NoTextResponse, FailedRequest} \cup {TextResponse(t) : t \in SeqsUpTo(Tokens, MaxText)}

callAnalyzeTraumaData ==
  /\ outcome = NotCalled
  /\ outcome' = analyzeTraumaData(response)
  /\ UNCHANGED <<response, formVars, voiceVars, chartVars>>

\* ---------------------------------------------------------------- specifications
Next ==
  \/ \E v \in Edits(narrative) : handleInputChange(v)
  \/ \E ok \in BOOLEAN : toggleListening(ok)
  \/ \E s \in Sessions : getUserMediaResolved(s)
  \/ \E s \in Sessions : getUserMediaRejected(s)
  \/ \E s \in Sessions, thrown \in BOOLEAN : onopen(s, thrown)
  \/ \E s \in Sessions, text \in Fragments : onmessage(s, text)
  \/ \E s \in Sessions : onerror(s)
  \/ \E s \in Sessions : onclose(s)
  \/ handleSubmit
  \/ \E resp \in Responses : analysisSettles(resp)

\* the application
Spec == Init /\ [][Next]_vars

NextThrows ==
  \/ Next
  \/ \E step \in ThrowingSteps : toggleListeningThrows(step)

\* the application when a release call of stopListening can throw
SpecThrows == Init /\ [][NextThrows]_vars

InitChartAlone ==
  /\ InitForm /\ InitVoice /\ InitClient
  /\ injuries \in InjuryLists
  /\ data = <<>>

\* the chart component on every list of injuries
SpecChart == InitChartAlone /\ [][InjuryChart]_vars

InitClientAlone ==
  /\ InitForm /\ InitVoice /\ InitChart
  /\ response \in AllResponses
  /\ outcome = NotCalled

\* the analysis client on every response
SpecClient == InitClientAlone /\ [][callAnalyzeTraumaData]_vars

\* ---------------------------------------------------------------- properties
IsBlank(s) == \A i \in 1..Len(s) : s[i] = " "

\* C1: a submit with an empty or whitespace-only narrative issues no analysis
\* request, shows the validation warning and leaves the loading flag and the
\* last result as they were.
C1_BlankSubmit ==
  [][(handleSubmit /\ IsBlank(narrative)) =>
       /\ inflight' = inflight
       /\ alert' = "validation"
       /\ loading' = loading
       /\ analysis' = analysis]_vars

C1_Witness ==
  /\ alert = "validation"
  /\ narrative # <<>> /\ IsBlank(narrative)
  /\ inflight = 0 /\ ~loading

NotValidJson(resp) == resp.kind = "text" /\ ~JSONParse(resp.text).ok

\* C2: when the analysis call returns text that is not valid JSON, the failure
\* alert is shown and the displayed result is left as it was.
C2_Original ==
  [][\A resp \in Responses :
       (analysisSettles(resp) /\ NotValidJson(resp)) =>
         (alert' = "failure" /\ analysis' = analysis)]_vars

Started(s) == phase[s] \in {"connecting", "open", "errored", "closed"}

\* C3: once a started voice session has been stopped (the session ref is null
\* again), its live session is closed, its stream's tracks are stopped and
\* its audio context is closed.
C3_Original ==
  \A s \in Sessions :
    (Started(s) /\ sessionRef = 0) =>
      (phase[s] = "closed" /\ stream[s] = "stopped" /\ ctx[s] = "closed")

\* C4: when one release step of stopListening throws, the other two release
\* steps are still carried out on what the refs held.
C4_Original ==
  [][\A step \in ThrowingSteps :
       toggleListeningThrows(step) =>
         /\ sessionRef # 0 => phase'[sessionRef] = "closed"
         /\ (step # "tracks" /\ streamRef # 0) => stream'[streamRef] = "stopped"
         /\ (step # "context" /\ audioContextRef # 0) => ctx'[audioContextRef] = "closed"]_vars

RECURSIVE JoinSpaces(_)
JoinSpaces(fs) ==
  IF fs = <<>> THEN <<>>
  ELSE IF Len(fs) = 1 THEN fs[1]
  ELSE fs[1] \o <<" ">> \o JoinSpaces(Tail(fs))

\* C5: starting from an empty narrative, after fragments f1..fn the narrative
\* is f1..fn joined by single spaces: each fragment is there once, after one
\* space, and the first after none.
C5_SpaceJoined == dictated => narrative = JoinSpaces(heard)

C5_Witness ==
  /\ dictated
  /\ heard = << <<"a">>, <<"a">> >>
  /\ narrative = <<"a", " ", "a">>

\* C6: a session error stops the voice bridge (listening flag false, stream
\* and context released) without an alert, and the microphone alert is raised
\* by nothing but a failed permission request.
C6_Original ==
  [][/\ \A s \in Sessions :
          onerror(s) =>
            (~isListening' /\ streamRef' = 0 /\ audioContextRef' = 0 /\ alert' = alert)
     /\ (alert' = "mic" /\ alert # "mic") =>
          \E s \in Sessions : getUserMediaRejected(s)]_vars

\* C7: the loading flag is true exactly while the analysis request is in
\* flight; when the request settles the flag is cleared, and when it settled
\* by throwing the failure warning is shown.
C7_LoadingWhileInFlight ==
  /\ (loading <=> inflight > 0)
  /\ [][/\ loading' <=> inflight' > 0
        /\ \A resp \in Responses :
             analysisSettles(resp) =>
               /\ ~loading'
               /\ analyzeTraumaData(resp).kind = "throw" => alert' = "failure"]_vars

C7_Witness == alert = "failure" /\ ~loading /\ inflight = 0 /\ ~IsBlank(narrative)

Parseable(resp) == resp.kind = "text" /\ JSONParse(resp.text).ok

\* C8: for every response whose text is not parseable JSON, an empty or
\* absent text included, the analysis client throws and returns no value.
C8_Original ==
  (outcome # NotCalled /\ ~Parseable(response)) => outcome.kind = "throw"

Rendered == injuries # <<>> /\ Len(data) = Len(injuries)

\* C9: the chart's rows are in non-increasing order of probability.
C9_Original ==
  Rendered =>
    \A j, k \in 1..Len(data) :
      j < k => injuries[data[j].name].probability >= injuries[data[k].name].probability

\* C9 as amended: the chart's rows are the injuries, each once, in
\* non-increasing order of the rounded percentage Math.round(probability *
\* 100); injuries with the same percentage keep the order of the input.
C9_SortedByPercent ==
  Rendered =>
    /\ \A i \in 1..Len(injuries) : \E j \in 1..Len(data) : data[j] = ToRow(injuries[i])
    /\ \A j, k \in 1..Len(data) :
         j < k =>
           /\ data[j].prob >= data[k].prob
           /\ data[j].prob = data[k].prob => data[j].name < data[k].name

C9_Witness ==
  /\ Len(injuries) = 3
  /\ injuries[1].probability = 300
  /\ injuries[2].probability = 900
  /\ injuries[3].probability = 500
  /\ data = << [name |-> 2, prob |-> 90], [name |-> 3, prob |-> 50], [name |-> 1, prob |-> 30] >>

\* C10: while a first analysis request is in flight a second submit is still
\* accepted, so that two requests can overlap.
C10_Original == inflight > 0 => SubmitEnabled

\* C10 as amended: the submit button is disabled while the loading flag is
\* set, so at most one analysis request is in flight at a time and the flag
\* is set for it.
C10_OneRequestAtATime == inflight <= 1 /\ (inflight = 1 => loading)

C10_Witness == inflight = 1 /\ loading /\ analysis # JsonNull

\* C11: a transcript fragment is appended to the narrative only while the
\* bridge is listening, and never from a session whose capture stopListening
\* has already torn down.
C11_Original ==
  [][\A s \in Sessions, text \in Fragments :
       onmessage(s, text) => (isListening /\ stream[s] # "stopped")]_vars

Opening(s) == phase[s] \in {"asking", "connecting"}

\* C12: whenever the listening flag is false and no session is being opened,
\* every microphone stream the app acquired has its tracks stopped and every
\* audio context it created is closed.
C12_Original ==
  (~isListening /\ \A s \in Sessions : ~Opening(s)) =>
    \A s \in Sessions : stream[s] # "live" /\ ctx[s] # "running"

====
